---- MODULE Spec2Model ----
(***************************************************************************)
(* The m-dash detector content script (src/src/content.ts) as a state      *)
(* machine: the page's DOM under document.body, the script's module-level  *)
(* variables, the MutationObserver's record queue, the debounce timer and  *)
(* the installed listeners / history wrappers.                             *)
(*                                                                         *)
(* A DOM node is a record [id, k, tag, cls, s, ch]: k is "E" (element) or   *)
(* "T" (text); s is the text of a text node as a sequence of characters;   *)
(* ch the child nodes of an element in document order; id > 0 is the       *)
(* identity of a node that a queued mutation record names as added (the    *)
(* callback reads such a node as it is when the record is delivered), and  *)
(* id = 0 everywhere else.                                                 *)
(*                                                                         *)
(* The development server (src/unnamed/part_000) is a second machine: its  *)
(* live-reload subscribers, its startup grace flag and its debounced       *)
(* notifyClients.                                                          *)
(***************************************************************************)
EXTENDS Integers, Sequences, FiniteSets, TLC

\* ------------------------------------------------------------------ bounds
\* Elements of the page in the document at one time.
MaxElems == 1
\* Characters of text in the document at one time.
MaxChars == 4
\* The page adds content only while emDashCount is below this.
MaxCount == 3
\* Timers the host holds at once (the script never holds more than one).
MaxTimers == 2
\* Granularity of the clock, in milliseconds.
TickMs == 50
\* Triggers counted in one burst.
MaxBurst == 2
\* Longest text of the single-node highlighting specification.
MaxTextLen == 5
\* Calls of observeChanges counted between two teardowns.
MaxInstalls == 2
\* Live-reload connections the server accepts in one run.
MaxClients == 2
\* Reload messages counted per connection.
MaxNotes == 2
\* Granularity of the server's clock, in milliseconds.
ServerTickMs == 100

\* --------------------------------------------------------- program constants
EM_DASH == "U+2014"
DebounceMs == 100
HIGHLIGHT == "mdash-highlight"
BANNER == "mdash-warning-banner"
skipTags == {"SCRIPT", "STYLE", "NOSCRIPT", "IFRAME", "TEXTAREA", "INPUT"}
\* The development server: the startup grace period and notifyClients' wait.
GraceMs == 1000
NotifyMs == 300

\* The inputs the page draws from.
Chars == {"x", EM_DASH}
PageTags == {"DIV", "SCRIPT"}
PageTexts == { <<"x", EM_DASH>>, <<EM_DASH, EM_DASH>> }

\* ------------------------------------------------------------------- nodes
TextNode(i, t) == [id |-> i, k |-> "T", tag |-> "#text", cls |-> "", s |-> t, ch |-> <<>>]
Element(i, tg, c, kids) == [id |-> i, k |-> "E", tag |-> tg, cls |-> c, s |-> <<>>, ch |-> kids]

\* document.body with the given children (the banner is kept apart, see
\* docBanners: its text never holds an em-dash).
Body(kids) == Element(0, "BODY", "", kids)

Min(a, b) == IF a < b THEN a ELSE b
Max(a, b) == IF a > b THEN a ELSE b

\* String.prototype.includes(EM_DASH)
Includes(t) == \E i \in 1..Len(t) : t[i] = EM_DASH

\* String.prototype.split(EM_DASH): the parts between the separators.
RECURSIVE Split(_)
Split(t) ==
  IF t = <<>> THEN << <<>> >>
  ELSE LET rest == Split(Tail(t)) IN
       IF Head(t) = EM_DASH THEN << <<>> >> \o rest
       ELSE << <<Head(t)>> \o rest[1] >> \o Tail(rest)

\* text.split(EM_DASH).length - 1
MatchesOffByOne(t) == Len(Split(t))
Matches(t) == Len(Split(t)) - 1

\* The span highlightTextNode creates; span.textContent = EM_DASH gives it one
\* text child.  (The random animation delay and offset are style only.)
HighlightSpan == Element(0, "SPAN", HIGHLIGHT, << TextNode(0, <<EM_DASH>>) >>)

\* parts.forEach: the text part when it is not empty, then a span unless the
\* part is the last one.
RECURSIVE FragmentFrom(_, _)
FragmentFrom(parts, index) ==
  IF index > Len(parts) THEN <<>>
  ELSE (IF parts[index] # <<>> THEN << TextNode(0, parts[index]) >> ELSE <<>>)
       \o (IF index < Len(parts) THEN << HighlightSpan >> ELSE <<>>)
       \o FragmentFrom(parts, index + 1)

FragmentDropsLastPart(t) == LET parts == Split(t) IN FragmentFrom(SubSeq(parts, 1, Len(parts) - 1), 1) \o << HighlightSpan >>
Fragment(t) == FragmentFrom(Split(t), 1)

\* The TreeWalker's acceptNode filter: node is a text node, parent its
\* parent element.
AcceptNode(node, parent) ==
  /\ ~(parent.cls = HIGHLIGHT \/ parent.cls = BANNER)
  /\ Includes(node.s)

\* The text nodes the TreeWalker rooted at an element returns, in document
\* order (SHOW_TEXT: every text node below the root, whatever its ancestors).
RECURSIVE Collect(_, _)
Collect(kids, parent) ==
  IF kids = <<>> THEN <<>>
  ELSE LET n == Head(kids) IN
       (IF n.k = "T" THEN (IF AcceptNode(n, parent) THEN << n >> ELSE <<>>)
        ELSE Collect(n.ch, n))
       \o Collect(Tail(kids), parent)

\* textNodes.forEach(highlightTextNode) on nodes that all have a parent:
\* every collected node is replaced, in place, by its fragment.
RECURSIVE HighlightCollected(_, _)
HighlightCollected(kids, parent) ==
  IF kids = <<>> THEN <<>>
  ELSE LET n == Head(kids) IN
       (IF n.k = "T" THEN (IF AcceptNode(n, parent) THEN Fragment(n.s) ELSE << n >>)
        ELSE << [n EXCEPT !.ch = HighlightCollected(n.ch, n)] >>)
       \o HighlightCollected(Tail(kids), parent)

RECURSIVE SumMatches(_)
SumMatches(textNodes) ==
  IF textNodes = <<>> THEN 0 ELSE Matches(Head(textNodes).s) + SumMatches(Tail(textNodes))

\* walkTextNodes(element): the element afterwards, the text nodes it
\* replaced, and what it added to emDashCount.
WalkTextNodes(element) ==
  IF element.tag \in skipTags
  THEN [el |-> element, matched |-> <<>>, found |-> 0]
  ELSE LET textNodes == Collect(element.ch, element) IN
       [el |-> [element EXCEPT !.ch = HighlightCollected(element.ch, element)],
        matched |-> textNodes,
        found |-> SumMatches(textNodes)]

\* ------------------------------------------------------- reading the tree
RECURSIVE TextOf(_)
TextOf(kids) ==
  IF kids = <<>> THEN <<>>
  ELSE (IF Head(kids).k = "T" THEN Head(kids).s ELSE TextOf(Head(kids).ch)) \o TextOf(Tail(kids))

RECURSIVE CountDashes(_)
CountDashes(t) == IF t = <<>> THEN 0 ELSE (IF Head(t) = EM_DASH THEN 1 ELSE 0) + CountDashes(Tail(t))

\* The highlight elements among the nodes and below them, in document order.
RECURSIVE Highlights(_)
Highlights(kids) ==
  IF kids = <<>> THEN <<>>
  ELSE (IF Head(kids).k = "E"
        THEN (IF Head(kids).cls = HIGHLIGHT THEN << Head(kids) >> ELSE <<>>) \o Highlights(Head(kids).ch)
        ELSE <<>>)
       \o Highlights(Tail(kids))

\* The page's own elements among the nodes and below them.
RECURSIVE PageElements(_)
PageElements(kids) ==
  IF kids = <<>> THEN <<>>
  ELSE (IF Head(kids).k = "E"
        THEN (IF Head(kids).cls = "" THEN << Head(kids) >> ELSE <<>>) \o PageElements(Head(kids).ch)
        ELSE <<>>)
       \o PageElements(Tail(kids))

RECURSIVE IdsOf(_)
IdsOf(kids) ==
  IF kids = <<>> THEN {}
  ELSE (IF Head(kids).id # 0 THEN {Head(kids).id} ELSE {}) \cup IdsOf(Head(kids).ch) \cup IdsOf(Tail(kids))

\* The node with the given identity, or the fallback.
RECURSIVE FindById(_, _, _)
FindById(kids, i, fallback) ==
  IF kids = <<>> THEN fallback
  ELSE IF Head(kids).id = i THEN Head(kids)
  ELSE LET below == FindById(Head(kids).ch, i, fallback) IN
       IF below # fallback THEN below ELSE FindById(Tail(kids), i, fallback)

\* The nodes with node i replaced by the sequence repl, wherever it is.
RECURSIVE ReplaceById(_, _, _)
ReplaceById(kids, i, repl) ==
  IF kids = <<>> THEN <<>>
  ELSE (IF Head(kids).id = i THEN repl
        ELSE << [Head(kids) EXCEPT !.ch = ReplaceById(Head(kids).ch, i, repl)] >>)
       \o ReplaceById(Tail(kids), i, repl)

\* Once the records are delivered nothing names a node any more.
RECURSIVE StripIds(_)
StripIds(kids) ==
  IF kids = <<>> THEN <<>>
  ELSE << [Head(kids) EXCEPT !.id = 0, !.ch = StripIds(Head(kids).ch)] >> \o StripIds(Tail(kids))

\* Positions in the tree: paths of child indices; << >> is document.body.
RECURSIVE Paths(_)
Paths(kids) ==
  UNION { {<<i>>} \cup { <<i>> \o p : p \in Paths(kids[i].ch) } : i \in 1..Len(kids) }

RECURSIVE NodeAt(_, _)
NodeAt(kids, path) ==
  IF Len(path) = 1 THEN kids[path[1]] ELSE NodeAt(kids[path[1]].ch, Tail(path))

RECURSIVE RemoveAt(_, _)
RemoveAt(kids, path) ==
  IF Len(path) = 1 THEN SubSeq(kids, 1, path[1] - 1) \o SubSeq(kids, path[1] + 1, Len(kids))
  ELSE [kids EXCEPT ![path[1]] = [@ EXCEPT !.ch = RemoveAt(@, Tail(path))]]

\* parent.appendChild(n), parent the element at the path.
RECURSIVE AppendAt(_, _, _)
AppendAt(kids, path, n) ==
  IF path = <<>> THEN Append(kids, n)
  ELSE [kids EXCEPT ![path[1]] = [@ EXCEPT !.ch = AppendAt(@, Tail(path), n)]]

\* ------------------------------------------------------------------- state
VARIABLES
  doc,               \* the children of document.body, banner apart
  pending,           \* the MutationObserver's queue of records
  emDashCount,       \* content.ts:48
  svgInjected,       \* content.ts:29
  warningBanner,     \* content.ts:49: the element the variable refers to
  docBanners,        \* banner elements attached to document.body
  mutationObserver,  \* content.ts:53: TRUE when not null
  observers,         \* MutationObserver objects observing document.body
  debounceTimeout,   \* content.ts:54: 0 for null, else a timer handle
  timers,            \* the host's pending timers: [h, left]
  historyPatched,    \* content.ts:58
  history,           \* what history.pushState / replaceState are bound to
  listeners,         \* the event listeners the script has registered
  idle,              \* ms since the last full-rescan trigger (saturating)
  burst,             \* triggers of the pending rescan, each < DebounceMs after the last
  quiet,             \* no page mutation since the last scanPage run
  removalRescan,     \* the pending rescan was asked for by a removed highlight
  installs,          \* calls of observeChanges since the last cleanup (saturating)
  startupGrace,      \* part_000:62
  graceLeft,         \* ms until the grace timer fires, -1 once it has
  notifyTimeout,     \* notifyClients' debounce timer: ms left, -1 for none
  armedInGrace,      \* the pending notifyClients call was last triggered in the grace period
  clients,           \* part_000:59: the controllers in the set
  closed,            \* controllers whose stream is closed: enqueue throws
  received,          \* reload messages enqueued, per controller
  nextClient         \* the next controller to be created

vars == << doc, pending, emDashCount, svgInjected, warningBanner, docBanners,
           mutationObserver, observers, debounceTimeout, timers, historyPatched,
           history, listeners, idle, burst, quiet, removalRescan, installs,
           startupGrace, graceLeft, notifyTimeout, armedInGrace, clients, closed,
           received, nextClient >>

scriptVars == << emDashCount, svgInjected, warningBanner, docBanners >>
watchVars == << mutationObserver, observers, historyPatched, history, listeners, installs >>
timerVars == << debounceTimeout, timers, idle, burst, removalRescan >>
serverVars == << startupGrace, graceLeft, notifyTimeout, armedInGrace, clients, closed, received, nextClient >>

NullBanner == [ref |-> FALSE, attached |-> FALSE, shown |-> 0]
BannerNode == Element(0, "DIV", BANNER, <<>>)

\* The text node of digits in the banner's count element (no em-dash in it);
\* countEl.textContent = ... replaces it by a new one.
CountText == TextNode(0, << "x" >>)

\* A mutation record.
Rec(added, removed) == [added |-> added, removed |-> removed]

Observed == observers > 0
\* Between tasks: every queued record has been delivered (the callback runs
\* as a microtask, before the next task).
TaskBoundary == pending = <<>>

\* Where the page appends: document.body or one of its own elements.
Targets == {<<>>} \cup { p \in Paths(doc) : NodeAt(doc, p).k = "E" /\ NodeAt(doc, p).cls = "" }
\* What the page removes: its own elements and highlight spans.
Removable == { p \in Paths(doc) : NodeAt(doc, p).k = "E" }

\* The page may add the text t (and, with elems = 1, an element).
Room(t, elems) ==
  /\ Len(TextOf(doc)) + Len(t) <= MaxChars
  /\ Len(PageElements(doc)) + elems <= MaxElems
  /\ emDashCount < MaxCount

\* ------------------------------------------------------------ debounce
\* debounced(): clearTimeout(debounceTimeout) when set, then setTimeout.
FreeHandle(ts) == CHOOSE h \in 1..(MaxTimers + 1) : h \notin {t.h : t \in ts} /\ \A g \in 1..(MaxTimers + 1) : g \notin {t.h : t \in ts} => h <= g
DebounceKeepsOldTimer(dt, ts) == [debounceTimeout |-> FreeHandle(ts), timers |-> ts \cup {[h |-> FreeHandle(ts), left |-> DebounceMs]}]
DebounceLosesTimer(dt, ts) == [debounceTimeout |-> FreeHandle(ts), timers |-> IF dt # 0 THEN {t \in ts : t.h # dt} ELSE ts]
Debounce(dt, ts) ==
  LET cleared == IF dt # 0 THEN {t \in ts : t.h # dt} ELSE ts IN
  [debounceTimeout |-> FreeHandle(cleared),
   timers |-> cleared \cup {[h |-> FreeHandle(cleared), left |-> DebounceMs]}]

\* debouncedRescan(); idle restarts with every trigger.
DebouncedRescan(byRemoval) ==
  LET d == Debounce(debounceTimeout, timers) IN
  /\ Cardinality(d.timers) <= MaxTimers
  /\ debounceTimeout' = d.debounceTimeout
  /\ timers' = d.timers
  /\ idle' = 0
  /\ burst' = IF idle < DebounceMs THEN Min(MaxBurst, burst + 1) ELSE 1
  /\ removalRescan' = (byRemoval \/ (removalRescan /\ debounceTimeout # 0))

\* debounced.cancel()
CancelKeepsTimer(dt, ts) == [debounceTimeout |-> 0, timers |-> ts]
Cancel(dt, ts) ==
  IF dt # 0 THEN [debounceTimeout |-> 0, timers |-> {t \in ts : t.h # dt}]
  ELSE [debounceTimeout |-> dt, timers |-> ts]

\* ------------------------------------------------------------- banner
\* updateWarningBanner() with emDashCount = count: the banner variable, the
\* banners in the document and the records the change queues.
UpdateWarningBannerRecreates(count, wb, nb) ==
  IF count = 0
  THEN IF wb.ref
       THEN [wb |-> NullBanner,
             nb |-> IF wb.attached THEN nb - 1 ELSE nb,
             recs |-> IF wb.attached THEN << Rec(<<>>, << BannerNode >>) >> ELSE <<>>]
       ELSE [wb |-> wb, nb |-> nb, recs |-> <<>>]
  ELSE [wb |-> [ref |-> TRUE, attached |-> TRUE, shown |-> count],
        nb |-> IF wb.attached THEN nb ELSE nb + 1,
        recs |-> (IF wb.attached THEN << Rec(<<>>, << BannerNode >>) >> ELSE <<>>) \o << Rec(<< BannerNode >>, <<>>) >>]
UpdateWarningBanner(count, wb, nb) ==
  IF count = 0
  THEN IF wb.ref
       THEN [wb |-> NullBanner,
             nb |-> IF wb.attached THEN nb - 1 ELSE nb,
             recs |-> IF wb.attached THEN << Rec(<<>>, << BannerNode >>) >> ELSE <<>>]
       ELSE [wb |-> wb, nb |-> nb, recs |-> <<>>]
  ELSE IF ~wb.ref
       THEN [wb |-> [ref |-> TRUE, attached |-> TRUE, shown |-> count],
             nb |-> nb + 1,
             recs |-> << Rec(<< BannerNode >>, <<>>) >>]
       ELSE [wb |-> [wb EXCEPT !.shown = count], nb |-> nb,
             recs |-> IF wb.attached THEN << Rec(<< CountText >>, << CountText >>) >> ELSE <<>>]

\* removeBanner()
RemoveBanner(wb, nb) == UpdateWarningBanner(0, wb, nb)

\* The records replaceChild(fragment, textNode) queues, one per text node.
RECURSIVE SelfRecords(_)
SelfRecords(textNodes) ==
  IF textNodes = <<>> THEN <<>>
  ELSE << Rec(Fragment(Head(textNodes).s), << Head(textNodes) >>) >> \o SelfRecords(Tail(textNodes))

\* The nodes among them that a record names.
RECURSIVE Named(_)
Named(nodes) ==
  IF nodes = <<>> THEN <<>>
  ELSE (IF Head(nodes).id # 0 THEN << Head(nodes) >> ELSE <<>>) \o Named(Tail(nodes))

\* ------------------------------------------------------------ scanPage
\* scanPage(): the counter is reset, document.body walked, the SVG injected
\* when something was found, the banner updated.
ScanPage(d, count, svg, wb, nb) ==
  LET w == WalkTextNodes(Body(d))
      found == 0 + w.found
      b == UpdateWarningBanner(found, wb, nb)
  IN [doc |-> w.el.ch, count |-> found, svg |-> (svg \/ found > 0),
      wb |-> b.wb, nb |-> b.nb, recs |-> SelfRecords(w.matched) \o b.recs]

\* ------------------------------------------- the MutationObserver callback
\* The callback's running state: the document, the detached nodes its
\* records name, the counter, its two flags and the records its own DOM
\* changes queue.
Handler(d, count) == [doc |-> d, det |-> <<>>, count |-> count, needsUpdate |-> FALSE, needsFullRescan |-> FALSE, recs |-> <<>>]

\* The node a record names, as it is now (a removed node is as it was when
\* it left the document: nothing changes it afterwards).
Current(h, ref) == IF ref.id = 0 THEN ref ELSE FindById(h.doc \o h.det, ref.id, ref)

\* node.parentNode is not null.
HasParent(h, node) == node.id # 0 /\ node.id \in IdsOf(h.doc)

ReplaceIn(kids, i, repl) == IF i = 0 THEN kids ELSE ReplaceById(kids, i, repl)

\* containsHighlights(node)
ContainsHighlights(node) ==
  IF node.k # "E" THEN FALSE
  ELSE IF node.cls = HIGHLIGHT THEN TRUE
  ELSE Highlights(node.ch) # <<>>

\* highlightTextNode(textNode) for a node a record names: the counter is
\* raised before the parent is looked at; the node is replaced only when it
\* still has a parent.
HighlightTextNode(h, textNode) ==
  IF ~Includes(textNode.s) THEN h
  ELSE IF HasParent(h, textNode)
       THEN [h EXCEPT !.count = @ + Matches(textNode.s),
                      !.doc = ReplaceIn(@, textNode.id, Fragment(textNode.s)),
                      !.det = @ \o << textNode >>,
                      !.recs = @ \o SelfRecords(<< textNode >>)]
       ELSE [h EXCEPT !.count = @ + Matches(textNode.s)]

\* walkTextNodes(el) for an element a record names, written back in place.
WalkElement(h, el) ==
  LET w == WalkTextNodes(el) IN
  [h EXCEPT !.count = @ + w.found,
            !.doc = ReplaceIn(@, el.id, << w.el >>),
            !.det = @ \o Named(w.matched),
            !.recs = @ \o SelfRecords(w.matched)]

\* mutation.removedNodes.forEach
OnRemovedNodeRescansAlways(h, ref) == [h EXCEPT !.needsFullRescan = TRUE]
OnRemovedNode(h, ref) ==
  LET node == Current(h, ref) IN
  IF node.k # "E" THEN h
  ELSE IF node.cls = BANNER THEN h
  ELSE IF ContainsHighlights(node) THEN [h EXCEPT !.needsFullRescan = TRUE]
  ELSE h

\* mutation.addedNodes.forEach
OnAddedNodeResets(h, ref) == [h EXCEPT !.count = 0, !.needsUpdate = TRUE]
OnAddedNode(h, ref) ==
  LET node == Current(h, ref) IN
  IF node.k = "E"
  THEN IF node.cls = HIGHLIGHT THEN h
       ELSE IF node.cls = BANNER THEN h
       ELSE [WalkElement(h, node) EXCEPT !.needsUpdate = TRUE]
  ELSE IF Includes(node.s)
       THEN [HighlightTextNode(h, node) EXCEPT !.needsUpdate = TRUE]
       ELSE h

RECURSIVE ForEachRemoved(_, _)
ForEachRemoved(h, nodes) ==
  IF nodes = <<>> THEN h ELSE ForEachRemoved(OnRemovedNode(h, Head(nodes)), Tail(nodes))

RECURSIVE ForEachAdded(_, _)
ForEachAdded(h, nodes) ==
  IF nodes = <<>> THEN h ELSE ForEachAdded(OnAddedNode(h, Head(nodes)), Tail(nodes))

\* mutations.forEach: a record's removed nodes, then its added nodes.
RECURSIVE ForEachMutation(_, _)
ForEachMutation(h, mutations) ==
  IF mutations = <<>> THEN h
  ELSE ForEachMutation(ForEachAdded(ForEachRemoved(h, Head(mutations).removed), Head(mutations).added), Tail(mutations))

\* ------------------------------------------------------------------ Init
\* The development server has just started: no subscriber, the grace flag
\* set and its one-second timer running, no notifyClients call pending.
ServerStart ==
  /\ startupGrace = TRUE
  /\ graceLeft = GraceMs
  /\ notifyTimeout = -1
  /\ armedInGrace = FALSE
  /\ clients = {}
  /\ closed = {}
  /\ received = [c \in 1..MaxClients |-> 0]
  /\ nextClient = 1

\* The script has run while the document was loading: nothing is installed
\* but the DOMContentLoaded listener.  (With the document already loaded the
\* script starts at once: the state after DOMContentLoaded below.)
ScriptStart ==
  /\ pending = <<>>
  /\ emDashCount = 0
  /\ svgInjected = FALSE
  /\ warningBanner = NullBanner
  /\ docBanners = 0
  /\ mutationObserver = FALSE
  /\ observers = 0
  /\ debounceTimeout = 0
  /\ timers = {}
  /\ historyPatched = FALSE
  /\ history = "original"
  /\ listeners = {"DOMContentLoaded"}
  /\ idle = DebounceMs
  /\ burst = 0
  /\ quiet = FALSE
  /\ removalRescan = FALSE
  /\ installs = 0
  /\ ServerStart

Init ==
  /\ doc = <<>>
  /\ ScriptStart

\* ------------------------------------------------------- the page's moves
\* One task of the page: its DOM changes, and the records they queue when an
\* observer is connected.  The nodes it adds are named 1 (element), 2 (text).
PageTask(d, recs) ==
  /\ doc' = IF Observed THEN d ELSE StripIds(d)
  /\ pending' = IF Observed THEN recs ELSE <<>>
  /\ quiet' = FALSE

\* The page appends an element it has built with its text inside: one record.
PageAppend(p, tg, t) ==
  /\ TaskBoundary
  /\ Room(t, 1)
  /\ LET n == Element(1, tg, "", << TextNode(2, t) >>) IN
     PageTask(AppendAt(doc, p, n), << Rec(<< n >>, <<>>) >>)
  /\ UNCHANGED << serverVars, scriptVars, watchVars, timerVars >>

\* The page appends an empty element and then appends the text to it: one
\* record for the element, one for the text node.
PageBuild(p, tg, t) ==
  /\ TaskBoundary
  /\ Room(t, 1)
  /\ LET e == Element(1, tg, "", <<>>)
         n == TextNode(2, t) IN
     PageTask(AppendAt(doc, p, [e EXCEPT !.ch = << n >>]), << Rec(<< e >>, <<>>), Rec(<< n >>, <<>>) >>)
  /\ UNCHANGED << serverVars, scriptVars, watchVars, timerVars >>

\* The page appends a text node.
PageAddText(p, t) ==
  /\ TaskBoundary
  /\ Room(t, 0)
  /\ LET n == TextNode(2, t) IN
     PageTask(AppendAt(doc, p, n), << Rec(<< n >>, <<>>) >>)
  /\ UNCHANGED << serverVars, scriptVars, watchVars, timerVars >>

\* The page removes one of its elements, or a highlight span.
PageRemove(p) ==
  /\ TaskBoundary
  /\ PageTask(RemoveAt(doc, p), << Rec(<<>>, << NodeAt(doc, p) >>) >>)
  /\ UNCHANGED << serverVars, scriptVars, watchVars, timerVars >>

\* The page removes the banner element.
PageRemoveBanner ==
  /\ TaskBoundary
  /\ docBanners > 0
  /\ docBanners' = docBanners - 1
  /\ warningBanner' = [warningBanner EXCEPT !.attached = FALSE]
  /\ PageTask(doc, << Rec(<<>>, << BannerNode >>) >>)
  /\ UNCHANGED << serverVars, emDashCount, svgInjected, watchVars, timerVars >>

\* The page calls history.pushState or history.replaceState: the wrapper
\* calls the original and then debouncedRescan; the original does no more.
HistoryCall ==
  /\ TaskBoundary
  /\ IF history = "patched"
     THEN DebouncedRescan(FALSE)
     ELSE UNCHANGED timerVars
  /\ UNCHANGED << serverVars, doc, pending, scriptVars, watchVars, quiet >>

\* A popstate or hashchange event: debouncedRescan when it is listening.
NavigationEvent(ev) ==
  /\ TaskBoundary
  /\ IF ev \in listeners
     THEN DebouncedRescan(FALSE)
     ELSE UNCHANGED timerVars
  /\ UNCHANGED << serverVars, doc, pending, scriptVars, watchVars, quiet >>

\* Time passes.
Tick ==
  /\ TaskBoundary
  /\ timers' = { [t EXCEPT !.left = Max(0, @ - TickMs)] : t \in timers }
  /\ idle' = Min(DebounceMs, idle + TickMs)
  /\ UNCHANGED << serverVars, doc, pending, scriptVars, watchVars, debounceTimeout, burst, removalRescan, quiet >>

\* ----------------------------------------------------- the script's steps
\* observeChanges()
ObserveChangesKeepsOld ==
  /\ mutationObserver' = TRUE
  /\ observers' = observers + 1
  /\ listeners' = (listeners \ {"DOMContentLoaded"}) \cup {"popstate", "hashchange", "pagehide"}
  /\ historyPatched' = TRUE
  /\ history' = IF ~historyPatched THEN "patched" ELSE history
  /\ installs' = Min(MaxInstalls, installs + 1)

ObserveChangesForgetsFlag ==
  /\ mutationObserver' = TRUE
  /\ observers' = (IF mutationObserver THEN observers - 1 ELSE observers) + 1
  /\ listeners' = (listeners \ {"DOMContentLoaded"}) \cup {"popstate", "hashchange", "pagehide"}
  /\ historyPatched' = historyPatched
  /\ history' = IF ~historyPatched THEN "patched" ELSE history
  /\ installs' = Min(MaxInstalls, installs + 1)

ObserveChanges ==
  /\ mutationObserver' = TRUE
  /\ observers' = (IF mutationObserver THEN observers - 1 ELSE observers) + 1
  /\ listeners' = (listeners \ {"DOMContentLoaded"}) \cup {"popstate", "hashchange", "pagehide"}
  /\ historyPatched' = TRUE
  /\ history' = IF ~historyPatched THEN "patched" ELSE history
  /\ installs' = Min(MaxInstalls, installs + 1)

\* DOMContentLoaded: scanPage(), then observeChanges().  No observer is
\* connected while the scan runs, so its DOM changes queue no record.
DOMContentLoaded ==
  /\ "DOMContentLoaded" \in listeners
  /\ LET r == ScanPage(doc, emDashCount, svgInjected, warningBanner, docBanners) IN
     /\ doc' = r.doc
     /\ emDashCount' = r.count
     /\ svgInjected' = r.svg
     /\ warningBanner' = r.wb
     /\ docBanners' = r.nb
  /\ ObserveChanges
  /\ quiet' = TRUE
  /\ UNCHANGED << serverVars, pending, timerVars >>

\* The debounce timer fires: debounceTimeout = null, then scanPage().
TimerFire ==
  /\ TaskBoundary
  /\ \E t \in timers :
       /\ t.left = 0
       /\ timers' = timers \ {t}
  /\ debounceTimeout' = 0
  /\ LET r == ScanPage(doc, emDashCount, svgInjected, warningBanner, docBanners) IN
     /\ doc' = r.doc
     /\ emDashCount' = r.count
     /\ svgInjected' = r.svg
     /\ warningBanner' = r.wb
     /\ docBanners' = r.nb
     /\ pending' = IF Observed THEN r.recs ELSE <<>>
  /\ burst' = 0
  /\ removalRescan' = FALSE
  /\ quiet' = TRUE
  /\ UNCHANGED << serverVars, watchVars, idle >>

\* The MutationObserver callback on the queued records.
Deliver ==
  /\ pending # <<>>
  /\ LET h == ForEachMutation(Handler(doc, emDashCount), pending)
         b == IF ~h.needsFullRescan /\ h.needsUpdate
              THEN UpdateWarningBanner(h.count, warningBanner, docBanners)
              ELSE [wb |-> warningBanner, nb |-> docBanners, recs |-> <<>>]
     IN
     /\ doc' = StripIds(h.doc)
     /\ emDashCount' = h.count
     /\ warningBanner' = b.wb
     /\ docBanners' = b.nb
     /\ pending' = h.recs \o b.recs
     /\ IF h.needsFullRescan
        THEN DebouncedRescan(TRUE)
        ELSE UNCHANGED timerVars
  /\ UNCHANGED << serverVars, svgInjected, watchVars, quiet >>

\* cleanup(), the pagehide listener (registered once: true).
Cleanup ==
  LET c == Cancel(debounceTimeout, timers)
      b == RemoveBanner(warningBanner, docBanners)
  IN
  /\ debounceTimeout' = c.debounceTimeout
  /\ timers' = c.timers
  /\ burst' = 0
  /\ removalRescan' = FALSE
  /\ observers' = IF mutationObserver THEN observers - 1 ELSE observers
  /\ mutationObserver' = FALSE
  /\ pending' = <<>>
  /\ listeners' = listeners \ {"popstate", "hashchange", "pagehide"}
  /\ history' = IF historyPatched THEN "original" ELSE history
  /\ historyPatched' = FALSE
  /\ warningBanner' = b.wb
  /\ docBanners' = b.nb
  /\ installs' = 0

PageHide ==
  /\ TaskBoundary
  /\ "pagehide" \in listeners
  /\ Cleanup
  /\ UNCHANGED << serverVars, doc, emDashCount, svgInjected, idle, quiet >>

Next ==
  \/ \E p \in Targets, tg \in PageTags, t \in PageTexts : PageAppend(p, tg, t)
  \/ \E p \in Targets, tg \in PageTags, t \in PageTexts : PageBuild(p, tg, t)
  \/ \E p \in Targets, t \in PageTexts : PageAddText(p, t)
  \/ \E p \in Removable : PageRemove(p)
  \/ PageRemoveBanner
  \/ HistoryCall
  \/ \E ev \in {"popstate", "hashchange"} : NavigationEvent(ev)
  \/ Tick
  \/ DOMContentLoaded
  \/ TimerFire
  \/ Deliver
  \/ PageHide

Spec == Init /\ [][Next]_vars

\* ------------------------------------------- single-node highlighting
\* Every text of up to MaxTextLen characters, alone in document.body, and
\* one scan of it.
Texts(n) == UNION { [1..k -> Chars] : k \in 0..n }

InitText ==
  /\ doc \in { << TextNode(0, t) >> : t \in Texts(MaxTextLen) }
  /\ ScriptStart

SpecText == InitText /\ [][DOMContentLoaded]_vars

\* ------------------------------------------------ repeated installation
\* observeChanges() called again, as the function allows (the script itself
\* calls it once, at startup).
Reinstall ==
  /\ TaskBoundary
  /\ "DOMContentLoaded" \notin listeners
  /\ ObserveChanges
  /\ UNCHANGED << serverVars, doc, pending, scriptVars, timerVars, quiet >>

NextInstall ==
  \/ DOMContentLoaded
  \/ Reinstall
  \/ PageHide
  \/ HistoryCall
  \/ \E ev \in {"popstate", "hashchange"} : NavigationEvent(ev)
  \/ \E p \in Targets, t \in PageTexts : PageAddText(p, t)
  \/ Deliver
  \/ Tick
  \/ TimerFire

SpecInstall == Init /\ [][NextInstall]_vars

\* ------------------------------------------------- bursts that come to an end
\* A document of one short text; the page removes highlights, navigates and
\* calls the history methods, at most MaxBurst triggers to one wait, and none
\* once the timer is due.  Time passes, due timers fire and queued records
\* are delivered.
InitLive ==
  /\ doc \in { << TextNode(0, t) >> : t \in Texts(2) }
  /\ ScriptStart

BurstOpen == burst < MaxBurst /\ \A t \in timers : t.left > 0

NextLive ==
  \/ DOMContentLoaded
  \/ BurstOpen /\ HistoryCall
  \/ BurstOpen /\ \E ev \in {"popstate", "hashchange"} : NavigationEvent(ev)
  \/ BurstOpen /\ \E p \in Removable : PageRemove(p)
  \/ Deliver
  \/ Tick
  \/ TimerFire
  \/ PageHide

SpecLive == InitLive /\ [][NextLive]_vars /\ WF_vars(Tick) /\ WF_vars(TimerFire) /\ WF_vars(Deliver)

\* ------------------------------------------------ the development server
\* The body of notifyClients' loop, client by client: enqueue, and on a
\* throw (the stream is closed) clients.delete(client).
RECURSIVE NotifyEachStopsAtFailure(_, _, _, _)
NotifyEachStopsAtFailure(todo, cl, cls, rec) ==
  IF todo = {} THEN [clients |-> cl, received |-> rec]
  ELSE LET c == CHOOSE x \in todo : \A y \in todo : x <= y IN
       IF c \in cls THEN [clients |-> cl, received |-> rec]
       ELSE NotifyEachStopsAtFailure(todo \ {c}, cl, cls, [rec EXCEPT ![c] = @ + 1])

RECURSIVE NotifyEach(_, _, _, _)
NotifyEach(todo, cl, cls, rec) ==
  IF todo = {} THEN [clients |-> cl, received |-> rec]
  ELSE LET c == CHOOSE x \in todo : \A y \in todo : x <= y IN
       IF c \in cls THEN NotifyEach(todo \ {c}, cl \ {c}, cls, rec)
       ELSE NotifyEach(todo \ {c}, cl, cls, [rec EXCEPT ![c] = @ + 1])

\* The function notifyClients debounces: nothing while startupGrace is set.
NotifyClients(grace, cl, cls, rec) ==
  IF grace THEN [clients |-> cl, received |-> rec]
  ELSE NotifyEach(cl, cl, cls, rec)

\* A watched .js, .css or .html file changes: notifyClients(), debounced by
\* NotifyMs; the pending call is superseded.
FileChange ==
  /\ \A c \in clients : received[c] < MaxNotes
  /\ notifyTimeout' = NotifyMs
  /\ armedInGrace' = startupGrace
  /\ UNCHANGED << startupGrace, graceLeft, clients, closed, received, nextClient >>

\* Time passes on the server, up to the next timer that is due.
ServerTick ==
  /\ graceLeft # 0
  /\ notifyTimeout # 0
  /\ graceLeft' = IF graceLeft > 0 THEN Max(0, graceLeft - ServerTickMs) ELSE graceLeft
  /\ notifyTimeout' = IF notifyTimeout > 0 THEN Max(0, notifyTimeout - ServerTickMs) ELSE notifyTimeout
  /\ UNCHANGED << startupGrace, armedInGrace, clients, closed, received, nextClient >>

\* The grace timer fires: startupGrace = false.
GraceEnd ==
  /\ graceLeft = 0
  /\ graceLeft' = -1
  /\ startupGrace' = FALSE
  /\ UNCHANGED << notifyTimeout, armedInGrace, clients, closed, received, nextClient >>

\* The debounce timer fires: the debounced function runs.
NotifyFire ==
  /\ notifyTimeout = 0
  /\ notifyTimeout' = -1
  /\ armedInGrace' = FALSE
  /\ LET r == NotifyClients(startupGrace, clients, closed, received) IN
     /\ clients' = r.clients
     /\ received' = r.received
  /\ UNCHANGED << startupGrace, graceLeft, closed, nextClient >>

\* handleSSE(): a new stream starts, its controller joins the set.
HandleSSE ==
  /\ nextClient <= MaxClients
  /\ clients' = clients \cup {nextClient}
  /\ nextClient' = nextClient + 1
  /\ UNCHANGED << startupGrace, graceLeft, notifyTimeout, armedInGrace, closed, received >>

\* A subscriber goes away and its stream is cancelled.  The stream calls
\* cancel with the reason of the cancellation, so clients.delete removes
\* nothing: the controller stays in the set, and its enqueue throws.
StreamCancel(c) ==
  /\ c \in clients \ closed
  /\ closed' = closed \cup {c}
  /\ UNCHANGED << startupGrace, graceLeft, notifyTimeout, armedInGrace, clients, received, nextClient >>

NextServer ==
  \/ FileChange /\ UNCHANGED << doc, pending, scriptVars, watchVars, timerVars, quiet >>
  \/ ServerTick /\ UNCHANGED << doc, pending, scriptVars, watchVars, timerVars, quiet >>
  \/ GraceEnd /\ UNCHANGED << doc, pending, scriptVars, watchVars, timerVars, quiet >>
  \/ NotifyFire /\ UNCHANGED << doc, pending, scriptVars, watchVars, timerVars, quiet >>
  \/ HandleSSE /\ UNCHANGED << doc, pending, scriptVars, watchVars, timerVars, quiet >>
  \/ \E c \in 1..MaxClients : StreamCancel(c) /\ UNCHANGED << doc, pending, scriptVars, watchVars, timerVars, quiet >>

SpecServer == Init /\ [][NextServer]_vars

\* ------------------------------------------------------------- the claims
\* A run of scanPage: at DOMContentLoaded, or from the debounce timer.
ScanStep == DOMContentLoaded \/ TimerFire

\* cleanup() has run: the script started and its pagehide listener is gone.
TornDown == "DOMContentLoaded" \notin listeners /\ "pagehide" \notin listeners

\* A highlight element below a skip-listed element, or below another
\* highlight element.
RECURSIVE Misplaced(_, _)
Misplaced(kids, under) ==
  IF kids = <<>> THEN FALSE
  ELSE \/ /\ Head(kids).k = "E"
          /\ \/ Head(kids).cls = HIGHLIGHT /\ under
             \/ Misplaced(Head(kids).ch, under \/ Head(kids).tag \in skipTags \/ Head(kids).cls = HIGHLIGHT)
       \/ Misplaced(Tail(kids), under)

\* The em-dashes in the nodes the records add, as they were when added.
RECURSIVE AddedDashes(_)
AddedDashes(recs) ==
  IF recs = <<>> THEN 0 ELSE CountDashes(TextOf(Head(recs).added)) + AddedDashes(Tail(recs))

AddsOnly(recs) == recs # <<>> /\ \A i \in 1..Len(recs) : recs[i].removed = <<>>
NoSkipListed(kids) == \A i \in 1..Len(PageElements(kids)) : PageElements(kids)[i].tag \notin skipTags

C2_BannerIffCount == (TaskBoundary /\ ~TornDown) => (docBanners > 0 <=> emDashCount > 0)

\* C3: a run of scanPage right after another, with no page mutation in
\* between, leaves the counter and the number of highlight elements as the
\* first run left them.
C3_ScanIdempotent == [][(quiet /\ ScanStep) => (emDashCount' = emDashCount /\ Len(Highlights(doc')) = Len(Highlights(doc)))]_vars

\* C4: the debounced rescan that a removed highlight asked for leaves the
\* counter equal to the number of em-dashes that remain in the document.
C4_RescanCountsRemaining == [][(removalRescan /\ TimerFire) => emDashCount' = CountDashes(TextOf(doc'))]_vars

\* C5: handling a batch that only adds content (none of it in a skip-listed
\* element) raises the counter by the number of em-dashes added and removes
\* no highlight element.
C5_AddRaisesByAdded == [][(Deliver /\ AddsOnly(pending) /\ NoSkipListed(doc)) => (emDashCount' = emDashCount + AddedDashes(pending) /\ Len(Highlights(doc')) >= Len(Highlights(doc)))]_vars

\* C6: after cleanup() no scan runs and nothing is highlighted, whatever the
\* page does: no step is a run of scanPage or of the observer callback, the
\* counter and the highlight elements are not touched by the script, no
\* timer is pending and history.pushState / replaceState are the originals.
C6_NothingAfterTeardown == [][TornDown => (~ScanStep /\ ~Deliver /\ emDashCount' = emDashCount /\ Len(Highlights(doc')) <= Len(Highlights(doc)) /\ timers = {} /\ timers' = {} /\ history = "original" /\ history' = "original" /\ pending' = <<>>)]_vars

\* After teardown the page has added an em-dash to one of its DIVs, and it
\* is still plain text.
C6_Witness == TornDown /\ \E i \in 1..Len(PageElements(doc)) : PageElements(doc)[i].tag = "DIV" /\ \E j \in 1..Len(PageElements(doc)[i].ch) : PageElements(doc)[i].ch[j].k = "T" /\ Includes(PageElements(doc)[i].ch[j].s)

\* C7: at most one debounce timer is pending, and the debounced scanPage
\* runs only when DebounceMs have passed since the last trigger, leaving no
\* timer behind: triggers that follow each other faster share one run.
C7_OneScanPerBurst == [][Cardinality(timers') <= 1 /\ (TimerFire => (idle >= DebounceMs /\ timers' = {}))]_vars

\* A second trigger came within the window and one timer is pending.
C7_Witness == burst >= 2 /\ Cardinality(timers) = 1 /\ idle < DebounceMs

\* C8: no highlight element lies below a skip-listed element or below
\* another highlight element.
C8_NoHighlightInSkipped == ~Misplaced(doc, FALSE)

C10_OnlyScanResets == [][emDashCount' >= 0 /\ (emDashCount' < emDashCount => ScanStep)]_vars

\* The observer callback alone has raised the counter: nothing was found by
\* a scan (no SVG injected), and the counter is positive.
C10_Witness == ~svgInjected /\ emDashCount > 0

\* The handler's state when it comes to record i of the queued batch.
HandlerAt(i) == ForEachMutation(Handler(doc, emDashCount), SubSeq(pending, 1, i - 1))

\* Records of the script's own DOM changes: the nodes added are fragments,
\* highlight spans, the banner or its count text (none named by the page),
\* the nodes removed are replaced text nodes or the banner.
SelfMade(recs) ==
  /\ recs # <<>>
  /\ \A i \in 1..Len(recs) :
       /\ \A j \in 1..Len(recs[i].added) : recs[i].added[j].id = 0
       /\ \A j \in 1..Len(recs[i].removed) : recs[i].removed[j].k = "T" \/ recs[i].removed[j].cls = BANNER

\* C11: with no record queued and no rescan pending (and before teardown),
\* the counter equals the number of highlight elements in the document.
C11_CountEqualsHighlights == (TaskBoundary /\ timers = {} /\ ~TornDown) => emDashCount = Len(Highlights(doc))

\* C12: whenever the document holds a highlight element, the sparkle SVG
\* has been injected (svgInjected is true).
C12_SvgWhenHighlighted == Highlights(doc) # <<>> => svgInjected

\* C13: when the callback comes to an added text node that has no parent any
\* more, highlightTextNode changes nothing: neither the document nor the
\* counter.
C13_DetachedIsNoOp == \A i \in 1..Len(pending) : \A j \in 1..Len(pending[i].added) : LET n == Current(HandlerAt(i), pending[i].added[j]) IN (n.k = "T" /\ n.id # 0 /\ ~HasParent(HandlerAt(i), n)) => HighlightTextNode(HandlerAt(i), n) = HandlerAt(i)

\* C14: the callback on records of the script's own DOM changes leaves the
\* counter, the document, the banner and the timers as they are and queues
\* no further record: it neither counts nor schedules a rescan.
C14_NoFeedback == [][(Deliver /\ SelfMade(pending)) => (emDashCount' = emDashCount /\ doc' = doc /\ warningBanner' = warningBanner /\ docBanners' = docBanners /\ timers' = timers /\ debounceTimeout' = debounceTimeout /\ pending' = <<>>)]_vars

\* The records of a replaced text node and of the inserted banner are
\* queued for the callback.
C14_Witness == SelfMade(pending) /\ mutationObserver /\ (\E i \in 1..Len(pending) : pending[i].removed # <<>> /\ pending[i].removed[1].k = "T" /\ Includes(pending[i].removed[1].s) /\ Highlights(pending[i].added) # <<>>) /\ (\E i \in 1..Len(pending) : pending[i].added = << BannerNode >>)

\* C15: a pending debounced rescan leads to a run of scanPage (the timer
\* fires and clears debounceTimeout), or to teardown, which cancels it; the
\* run comes no earlier than DebounceMs after the last trigger, a trigger
\* leaves one timer with the whole wait ahead, and teardown leaves none.
C15_TriggerLeadsToScan == ((debounceTimeout # 0) ~> (debounceTimeout = 0 /\ (quiet \/ TornDown))) /\ [][(TimerFire => idle >= DebounceMs) /\ (idle' < idle => (Cardinality(timers') = 1 /\ \A t \in timers' : t.left = DebounceMs)) /\ (PageHide => (timers' = {} /\ emDashCount' = emDashCount))]_vars

\* The page removed the only highlight of a scanned document and the rescan
\* this asked for has run.
C15_Witness == quiet /\ svgInjected /\ doc = <<>> /\ debounceTimeout = 0 /\ ~TornDown

C17_OneSubscription == observers <= 1 /\ (mutationObserver <=> observers = 1)

\* observeChanges was called while a subscription was installed, and a
\* batch of the page is queued for the one observer.
C17_Witness == installs = 2 /\ observers = 1 /\ pending # <<>>

\* No record names the banner element.
NoBannerRecord(recs) == \A i \in 1..Len(recs) : recs[i].added # << BannerNode >> /\ recs[i].removed # << BannerNode >>

\* C18: a scan or a callback that ends with a positive counter while the
\* banner variable is set keeps that banner element (it is neither removed
\* nor inserted, its attachment is as before) and shows the counter in it,
\* unless the callback left the update to the rescan it scheduled; at most
\* one banner is in the document.
C18_BannerKept == [][(docBanners' <= 1) /\ ((warningBanner.ref /\ emDashCount' > 0 /\ (TimerFire \/ Deliver)) => (warningBanner'.ref /\ warningBanner'.attached = warningBanner.attached /\ docBanners' = docBanners /\ NoBannerRecord(pending') /\ (warningBanner'.shown = emDashCount' \/ (debounceTimeout' # 0 /\ warningBanner'.shown = warningBanner.shown))))]_vars

\* The callback alone created the banner and has raised its count to 3 in
\* a later batch.
C18_Witness == ~svgInjected /\ warningBanner.shown = 3 /\ docBanners = 1 /\ TaskBoundary

\* C19: a notifyClients call last triggered inside the startup grace period
\* enqueues nothing when its timer fires.
C19_GraceSuppresses == [][(NotifyFire /\ armedInGrace) => received' = received]_vars

\* C20: when notifyClients runs, every subscriber whose enqueue throws
\* leaves the set, every other one gets the message; a subscriber that has
\* been dropped is never in the set again and gets nothing more.
C20_InvalidSubscriberDropped == [][((NotifyFire /\ ~startupGrace) => (clients' = clients \ closed /\ \A c \in 1..MaxClients : received'[c] = IF c \in clients \ closed THEN received[c] + 1 ELSE received[c])) /\ (\A c \in closed \ clients : c \notin clients' /\ received'[c] = received[c])]_vars

\* One subscriber was dropped and another has its message.
C20_Witness == \E c \in closed \ clients : \E d \in clients \ closed : received[d] > received[c]

====
